---- MODULE Spec2Model ----
(***************************************************************************)
(* itk::TBBMultiThreader (Modules/Core/Common/src/itkTBBMultiThreader.cxx) *)
(* as a state machine: one top-level call (SingleMethodExecute,            *)
(* ParallelizeArray or ParallelizeImageRegion) made by the calling thread, *)
(* the tasks tbb::parallel_for derives from it, and the threads of the     *)
(* pool that run them.  Thread 0 is the calling thread.                    *)
(***************************************************************************)
EXTENDS Integers, Sequences, FiniteSets, Bags, TLC

\* ------------------------------------------------------------------ bounds
\* Threads of the pool, the calling thread included.
MaxThreads == 2
\* Largest m_NumberOfThreads configured.
MaxWorkers == 3
\* Longest flat range [firstIndex, lastIndexPlus1) with firstIndex <= lastIndexPlus1.
MaxLen == 5
\* Largest number of elements of a region.
MaxPixels == 4

\* Width in bits of SizeValueType (the index type), scaled down.
SizeValueBits == 3
\* Width in bits of `unsigned` (the type of `count`), scaled down; narrower
\* than SizeValueType as on LP64.
UnsignedBits == 2

SizeValueMod == 2 ^ SizeValueBits
UnsignedMod == 2 ^ UnsignedBits

Threads == 0 .. (MaxThreads - 1)
\* std::thread::id callingThread = std::this_thread::get_id();
callingThread == 0

\* Values of firstIndex; the top of the index type is among them.
FirstIndices == {0, SizeValueMod - 1}
\* Numbers of dimensions of a region.
Dimensions == {1, 2}
\* index[] of a region of n dimensions: -1, 2, ...
RegionIndex(n) == [d \in 1 .. n |-> 3 * d - 4]
\* Values of m_SingleData.
DataValues == {"d1", "d2"}
\* Ratios (left, right) of tbb::proportional_split.
Ratios == {<<1, 1>>, <<1, 2>>, <<3, 1>>}
\* TBBImageRegionSplitter(region, tbb::split) delegates to
\* tbb::proportional_split(1, 1)
SimpleSplitRatio == <<1, 1>>

VARIABLES
  call,      \* the top-level call: operation, arguments, executor configuration
  abort,     \* filter->GetAbortGenerateData()
  pc,        \* position of the calling thread in the top-level call
  exc,       \* exception captured by the parallel_for / raised to the caller
  pool,      \* bag of spawned tasks (their ranges) not yet taken by a thread
  thr,       \* per thread: the task it runs and its position in the closure
  progress,  \* std::atomic<SizeValueType> progress / pixelProgress
  calls,     \* bag of the arguments the work function was invoked with
  reports,   \* sequence of UpdateProgress calls: thread and value num/den
  refused,   \* leaves whose abort poll returned true
  abortedAt, \* where the call stood when abort became true: the caller's pc,
             \* whether a work invocation had ended, the exception captured
  lastSplit  \* the last application of the splitting constructor

vars == <<call, abort, pc, exc, pool, thr, progress, calls, reports, refused, abortedAt, lastSplit>>

Terminal == {"returned", "raised"}

\* ------------------------------------------------- tbb::blocked_range<T>
\* tbb::blocked_range(begin, end, grainsize = 1), as used at the two
\* parallel_for calls with tbb::simple_partitioner.
BlockedRange(b, e) == [b |-> b, e |-> e]
\* an empty() that holds for inverted ranges only
BlockedEmptyStrict(r) == r.e < r.b
\* blocked_range::empty(): !(my_begin < my_end)
BlockedEmpty(r) == ~(r.b < r.e)
\* is_divisible() of a range built with grainsize 2
BlockedIsDivisibleGrain2(r) == 2 < r.e - r.b
\* blocked_range::is_divisible(): my_grainsize < size(), grainsize 1
BlockedIsDivisible(r) == 1 < r.e - r.b
\* blocked_range::do_split: middle = begin + (end - begin) / 2
BlockedMiddle(r) == r.b + ((r.e - r.b) \div 2)
\* a splitting constructor that drops the element at the middle
BlockedSplitNewSkipsMiddle(r) == BlockedRange(BlockedMiddle(r) + 1, r.e)
\* the range the splitting constructor builds: [middle, end)
BlockedSplitNew(r) == BlockedRange(BlockedMiddle(r), r.e)
\* the range left in the split object: [begin, middle)
BlockedSplitOld(r) == BlockedRange(r.b, BlockedMiddle(r))

\* ------------------------------------------------- itk::ImageIORegion
\* ImageIORegion: index and size per dimension; dimension d of the code is
\* position d + 1 of the sequences.
Region(index, size) == [index |-> index, size |-> size]
GetImageDimension(r) == Len(r.size)

RECURSIVE SizeProduct(_, _)
SizeProduct(size, d) ==
  IF d = 0 THEN 1 ELSE size[d] * SizeProduct(size, d - 1)
\* ImageIORegion::GetNumberOfPixels(): product of the sizes
GetNumberOfPixels(r) == SizeProduct(r.size, Len(r.size))

RECURSIVE Points(_, _)
Points(r, d) ==
  IF d = 0 THEN {<<>>}
  ELSE {Append(p, i) : p \in Points(r, d - 1),
                       i \in r.index[d] .. (r.index[d] + r.size[d] - 1)}
\* the index set of a region
Elements(r) == Points(r, Len(r.size))

\* ------------------------------------------------- TBBImageRegionSplitter
\* empty(): some size is 0
empty(r) == \E d \in 1 .. GetImageDimension(r) : r.size[d] = 0
\* is_divisible(): some size is > 1
is_divisible(r) == \E d \in 1 .. GetImageDimension(r) : r.size[d] > 1

\* a search from dimension 0 upwards: the lowest dimension of size > 1
SplitDimensionLowest(r) ==
  LET ds == {d \in 1 .. GetImageDimension(r) : r.size[d] > 1}
  IN IF ds = {} THEN 0 ELSE CHOOSE d \in ds : \A x \in ds : d <= x

\* for (d = dimension - 1; d >= 0; d--) if (GetSize(d) > 1): the highest
\* dimension of size > 1, 0 when there is none
SplitDimension(r) ==
  LET ds == {d \in 1 .. GetImageDimension(r) : r.size[d] > 1}
  IN IF ds = {} THEN 0 ELSE CHOOSE d \in ds : \A x \in ds : x <= d

\* a split point that is not moved off 0 and off GetSize(d)
SplitPointUnclamped(s, p) == (s * p[2]) \div (p[1] + p[2])
\* a split point computed from the left share of the ratio
SplitPointLeftShare(s, p) ==
  LET myP == (s * p[1]) \div (p[1] + p[2])
  IN IF myP = 0 THEN myP + 1
     ELSE IF myP = s THEN myP - 1
     ELSE myP
\* myP = (GetSize(d) * p.right()) / (p.left() + p.right()), moved off 0 and
\* off GetSize(d)
SplitPoint(s, p) ==
  LET myP == (s * p[2]) \div (p[1] + p[2])
  IN IF myP = 0 THEN myP + 1
     ELSE IF myP = s THEN myP - 1
     ELSE myP

\* a splitting constructor that gives *this the upper myP positions
SplitThisTakesUpper(r, p) ==
  LET d == SplitDimension(r)
      myP == SplitPoint(r.size[d], p)
  IN Region([r.index EXCEPT ![d] = r.index[d] + r.size[d] - myP],
            [r.size EXCEPT ![d] = myP])

\* a splitting constructor that leaves *this the whole copy of `region`
SplitThisKeepsSize(r, p) == Region(r.index, r.size)

\* The splitting constructor, the object under construction (*this): a copy
\* of `region` with SetSize(d, myP).
SplitThis(r, p) ==
  LET d == SplitDimension(r)
      myP == SplitPoint(r.size[d], p)
  IN Region(r.index, [r.size EXCEPT ![d] = myP])

\* a splitting constructor that resets the index of `region` in the
\* dimensions it does not split
SplitRegionResetsIndex(r, p) ==
  LET d == SplitDimension(r)
      myP == SplitPoint(r.size[d], p)
  IN Region([e \in 1 .. GetImageDimension(r) |->
               IF e = d THEN myP + r.index[d] ELSE 0],
            [r.size EXCEPT ![d] = r.size[d] - myP])

\* a splitting constructor that leaves the index of `region` where it was
SplitRegionKeepsIndex(r, p) ==
  LET d == SplitDimension(r)
      myP == SplitPoint(r.size[d], p)
  IN Region(r.index, [r.size EXCEPT ![d] = r.size[d] - myP])
\* The splitting constructor, what it leaves in its argument `region`:
\* SetSize(d, GetSize(d) - myP); SetIndex(d, myP + GetIndex(d)).
SplitRegion(r, p) ==
  LET d == SplitDimension(r)
      myP == SplitPoint(r.size[d], p)
  IN Region([r.index EXCEPT ![d] = myP + r.index[d]],
            [r.size EXCEPT ![d] = r.size[d] - myP])

\* ------------------------------------------------- the top-level call
NoRegion == Region(<<0>>, <<0>>)

\* m_SingleMethod / aFunc / funcP are modelled by whether they are set
\* (non-null, non-empty); `filter` by whether a ProcessObject is passed.
SingleMethodExecuteCalls ==
  [op : {"SingleMethodExecute"}, m_NumberOfThreads : 1 .. MaxWorkers,
   m_SingleMethod : BOOLEAN, m_SingleData : DataValues,
   firstIndex : {0}, lastIndexPlus1 : {0}, region : {NoRegion},
   func : {FALSE}, filter : {FALSE}]

ParallelizeArrayCalls ==
  {c \in [op : {"ParallelizeArray"}, m_NumberOfThreads : {1, MaxWorkers},
          m_SingleMethod : {FALSE}, m_SingleData : {"d1"},
          firstIndex : FirstIndices, lastIndexPlus1 : 0 .. (SizeValueMod - 1),
          region : {NoRegion}, func : BOOLEAN, filter : BOOLEAN] :
     c.lastIndexPlus1 - c.firstIndex <= MaxLen}

Regions ==
  UNION {{r \in {Region(RegionIndex(n), s) : s \in [1 .. n -> 0 .. MaxPixels]} :
            GetNumberOfPixels(r) <= MaxPixels} : n \in Dimensions}

ParallelizeImageRegionCalls ==
  [op : {"ParallelizeImageRegion"}, m_NumberOfThreads : {1, MaxWorkers},
   m_SingleMethod : {FALSE}, m_SingleData : {"d1"},
   firstIndex : {0}, lastIndexPlus1 : {0}, region : Regions,
   func : BOOLEAN, filter : BOOLEAN]

Calls == SingleMethodExecuteCalls \cup ParallelizeArrayCalls
           \cup ParallelizeImageRegionCalls

IdleThread == [pc |-> "idle"]
NoSplit == [from |-> NoRegion, ratio |-> <<1, 1>>, this |-> NoRegion, region |-> NoRegion]

Init ==
  /\ call \in Calls
  /\ abort \in (IF call.filter THEN BOOLEAN ELSE {FALSE})
  /\ pc = "start"
  /\ exc = "none"
  /\ pool = EmptyBag
  /\ thr = [t \in Threads |-> IdleThread]
  /\ progress = 0
  /\ calls = EmptyBag
  /\ reports = <<>>
  /\ refused = {}
  /\ abortedAt = [pc |-> IF abort THEN "call" ELSE "never", completed |-> FALSE,
                  exc |-> "none"]
  /\ lastSplit = NoSplit

\* ------------------------------------------------- locals of the calls
\* tbb::simple_partitioner at the blocked_range calls; the region call
\* passes no partitioner (auto_partitioner).
Simple == call.op # "ParallelizeImageRegion"

\* unsigned count = lastIndexPlus1 - firstIndex;
count == ((call.lastIndexPlus1 - call.firstIndex) % SizeValueMod) % UnsignedMod
\* SizeValueType totalCount = region.GetNumberOfPixels();
totalCount == GetNumberOfPixels(call.region) % SizeValueMod

IsDivisible(r) == IF Simple THEN BlockedIsDivisible(r) ELSE is_divisible(r)

\* the argument the closure passes to the work function for leaf r
WorkArgument(r) ==
  CASE call.op = "SingleMethodExecute" ->
         [ThreadID |-> r.b, UserData |-> call.m_SingleData,
          NumberOfThreads |-> call.m_NumberOfThreads]
    [] call.op = "ParallelizeArray" -> r.b
    [] OTHER -> r

\* the first exception a parallel_for captures is the one it rethrows
Capture(e) == IF exc = "none" THEN e ELSE exc

UpdateProgress(t, num, den) ==
  reports' = Append(reports, [thread |-> t, num |-> num, den |-> den])

\* work invocations that have ended (all of them by returning, as long as
\* exc is "none")
Completed ==
  BagCardinality(calls)
    - Cardinality({t \in Threads : thr[t].pc \in {"work", "report"}})
    - (IF pc = "direct" THEN 1 ELSE 0)

RootTask(r) == [thr EXCEPT ![callingThread] = [pc |-> "part", rng |-> r]]

\* ------------------------------------------------- the calling thread
\* a SingleMethodExecute that dispatches without looking at m_SingleMethod
SingleMethodExecuteUnchecked ==
  /\ pc = "start"
  /\ call.op = "SingleMethodExecute"
  /\ pc' = "parallel"
  /\ thr' = RootTask(BlockedRange(0, call.m_NumberOfThreads))
  /\ UNCHANGED <<call, abort, exc, pool, progress, calls, reports, refused, abortedAt, lastSplit>>

\* SingleMethodExecute: the m_SingleMethod check, then
\* parallel_for(blocked_range<int>(0, m_NumberOfThreads, 1), ...).
SingleMethodExecute ==
  /\ pc = "start"
  /\ call.op = "SingleMethodExecute"
  /\ IF ~call.m_SingleMethod
       THEN /\ exc' = "NoSingleMethod"
            /\ pc' = "raised"
            /\ thr' = thr
       ELSE /\ exc' = exc
            /\ pc' = "parallel"
            /\ thr' = RootTask(BlockedRange(0, call.m_NumberOfThreads))
  /\ UNCHANGED <<call, abort, pool, progress, calls, reports, refused, abortedAt, lastSplit>>

\* a call that goes to its branch without the report of 0.0
ReportStartSkipped ==
  /\ pc = "start"
  /\ call.op \in {"ParallelizeArray", "ParallelizeImageRegion"}
  /\ pc' = "branch"
  /\ UNCHANGED <<call, abort, exc, pool, thr, progress, calls, reports, refused, abortedAt, lastSplit>>

\* ParallelizeArray / ParallelizeImageRegion:
\* if (filter) filter->UpdateProgress(0.0f);
ReportStart ==
  /\ pc = "start"
  /\ call.op \in {"ParallelizeArray", "ParallelizeImageRegion"}
  /\ IF call.filter THEN UpdateProgress(callingThread, 0, 1) ELSE reports' = reports
  /\ pc' = "branch"
  /\ UNCHANGED <<call, abort, exc, pool, thr, progress, calls, refused, abortedAt, lastSplit>>

\* a ParallelizeArray that sends a single-element range to parallel_for too
ParallelizeArrayAlwaysDispatches ==
  /\ pc = "branch"
  /\ call.op = "ParallelizeArray"
  /\ LET first == call.firstIndex
         last == call.lastIndexPlus1
         range == BlockedRange(first, last)
     IN IF (first + 1) % SizeValueMod <= last
          THEN /\ thr' = IF BlockedEmpty(range) THEN thr ELSE RootTask(range)
               /\ pc' = "parallel"
          ELSE /\ pc' = "final"
               /\ thr' = thr
  /\ UNCHANGED <<call, abort, exc, pool, progress, calls, reports, refused, abortedAt, lastSplit>>

\* ParallelizeArray: the branch on firstIndex + 1 and lastIndexPlus1.
ParallelizeArray ==
  /\ pc = "branch"
  /\ call.op = "ParallelizeArray"
  /\ LET first == call.firstIndex
         last == call.lastIndexPlus1
         range == BlockedRange(first, last)
     IN IF (first + 1) % SizeValueMod < last
          THEN \* parallel_for runs nothing on an empty range
               /\ thr' = IF BlockedEmpty(range) THEN thr ELSE RootTask(range)
               /\ pc' = "parallel"
               /\ UNCHANGED <<exc, calls>>
          ELSE IF (first + 1) % SizeValueMod = last
          THEN \* aFunc( firstIndex ); an empty std::function throws
               IF call.func
                 THEN /\ calls' = calls (+) SetToBag({first})
                      /\ pc' = "direct"
                      /\ UNCHANGED <<exc, thr>>
                 ELSE /\ exc' = "bad_function_call"
                      /\ pc' = "raised"
                      /\ UNCHANGED <<calls, thr>>
          ELSE /\ pc' = "final"
               /\ UNCHANGED <<exc, calls, thr>>
  /\ UNCHANGED <<call, abort, pool, progress, reports, refused, abortedAt, lastSplit>>

\* a ParallelizeImageRegion that builds the splitter whatever the worker count
ParallelizeImageRegionAlwaysDispatches ==
  /\ pc = "branch"
  /\ call.op = "ParallelizeImageRegion"
  /\ thr' = IF empty(call.region) THEN thr ELSE RootTask(call.region)
  /\ pc' = "parallel"
  /\ UNCHANGED <<call, abort, exc, pool, progress, calls, reports, refused, abortedAt, lastSplit>>

\* ParallelizeImageRegion: the branch on m_NumberOfThreads.
ParallelizeImageRegion ==
  /\ pc = "branch"
  /\ call.op = "ParallelizeImageRegion"
  /\ IF call.m_NumberOfThreads = 1
       THEN \* funcP(index, size);
            IF call.func
              THEN /\ calls' = calls (+) SetToBag({call.region})
                   /\ pc' = "direct"
                   /\ UNCHANGED <<exc, thr>>
              ELSE /\ exc' = "bad_function_call"
                   /\ pc' = "raised"
                   /\ UNCHANGED <<calls, thr>>
       ELSE \* parallel_for(regionSplitter, ...) runs nothing on an empty range
            /\ thr' = IF empty(call.region) THEN thr ELSE RootTask(call.region)
            /\ pc' = "parallel"
            /\ UNCHANGED <<exc, calls>>
  /\ UNCHANGED <<call, abort, pool, progress, reports, refused, abortedAt, lastSplit>>

\* the directly invoked work function returns
DirectReturn ==
  /\ pc = "direct"
  /\ pc' = "final"
  /\ UNCHANGED <<call, abort, exc, pool, thr, progress, calls, reports, refused, abortedAt, lastSplit>>

\* the directly invoked work function throws
DirectThrow ==
  /\ pc = "direct"
  /\ exc' = "work"
  /\ pc' = "raised"
  /\ UNCHANGED <<call, abort, pool, thr, progress, calls, reports, refused, abortedAt, lastSplit>>

\* a parallel_for that does not rethrow what its tasks threw
JoinSwallows ==
  /\ pc = "parallel"
  /\ \A t \in Threads : thr[t].pc = "idle"
  /\ pool = EmptyBag \/ exc # "none"
  /\ pool' = EmptyBag
  /\ pc' = IF call.op = "SingleMethodExecute" THEN "returned" ELSE "final"
  /\ UNCHANGED <<call, abort, exc, thr, progress, calls, reports, refused, abortedAt, lastSplit>>

\* a parallel_for whose caller catches what it rethrows and goes on to the
\* end of the call
JoinGoesOn ==
  /\ pc = "parallel"
  /\ \A t \in Threads : thr[t].pc = "idle"
  /\ pool = EmptyBag \/ exc # "none"
  /\ pool' = EmptyBag
  /\ pc' = IF call.op = "SingleMethodExecute"
             THEN (IF exc # "none" THEN "raised" ELSE "returned")
             ELSE "final"
  /\ UNCHANGED <<call, abort, exc, thr, progress, calls, reports, refused, abortedAt, lastSplit>>

\* a parallel_for that returns while tasks of it are still running
JoinEarly ==
  /\ pc = "parallel"
  /\ pool = EmptyBag \/ exc # "none"
  /\ pool' = EmptyBag
  /\ pc' = IF exc # "none" THEN "raised"
           ELSE IF call.op = "SingleMethodExecute" THEN "returned"
           ELSE "final"
  /\ UNCHANGED <<call, abort, exc, thr, progress, calls, reports, refused, abortedAt, lastSplit>>

\* parallel_for returns once no task is left or running; it rethrows the
\* captured exception, and the tasks it cancelled are never run.
Join ==
  /\ pc = "parallel"
  /\ \A t \in Threads : thr[t].pc = "idle"
  /\ pool = EmptyBag \/ exc # "none"
  /\ pool' = EmptyBag
  /\ pc' = IF exc # "none" THEN "raised"
           ELSE IF call.op = "SingleMethodExecute" THEN "returned"
           ELSE "final"
  /\ UNCHANGED <<call, abort, exc, thr, progress, calls, reports, refused, abortedAt, lastSplit>>

\* if (filter) { filter->UpdateProgress(1.0f); ...
ReportEnd ==
  /\ pc = "final"
  /\ IF call.filter
       THEN /\ UpdateProgress(callingThread, 1, 1)
            /\ pc' = "recheck"
       ELSE /\ reports' = reports
            /\ pc' = "returned"
  /\ UNCHANGED <<call, abort, exc, pool, thr, progress, calls, refused, abortedAt, lastSplit>>

\* an end of call without the post-dispatch check of the abort flag
RecheckIgnoresAbort ==
  /\ pc = "recheck"
  /\ pc' = "returned"
  /\ UNCHANGED <<call, abort, exc, pool, thr, progress, calls, reports, refused, abortedAt, lastSplit>>

\* ... if (filter->GetAbortGenerateData()) throw e; }
Recheck ==
  /\ pc = "recheck"
  /\ IF abort
       THEN /\ exc' = "ProcessAborted"
            /\ pc' = "raised"
       ELSE /\ exc' = exc
            /\ pc' = "returned"
  /\ UNCHANGED <<call, abort, pool, thr, progress, calls, reports, refused, abortedAt, lastSplit>>

\* ------------------------------------------------- the pool's threads
\* an idle thread takes a spawned task; tasks of a cancelled parallel_for
\* are not started
Take(t) ==
  /\ pc = "parallel"
  /\ thr[t].pc = "idle"
  /\ exc = "none"
  /\ \E r \in BagToSet(pool) :
       /\ pool' = pool (-) SetToBag({r})
       /\ thr' = [thr EXCEPT ![t] = [pc |-> "part", rng |-> r]]
  /\ UNCHANGED <<call, abort, pc, exc, progress, calls, reports, refused, abortedAt, lastSplit>>

\* the partitioner splits the task's range: the task keeps what the
\* splitting constructor leaves in its argument, the constructed range is
\* spawned
Split(t) ==
  /\ thr[t].pc = "part"
  /\ IsDivisible(thr[t].rng)
  /\ LET r == thr[t].rng
     IN IF Simple
          THEN /\ thr' = [thr EXCEPT ![t].rng = BlockedSplitOld(r)]
               /\ pool' = pool (+) SetToBag({BlockedSplitNew(r)})
          ELSE \E p \in Ratios :
                 /\ thr' = [thr EXCEPT ![t].rng = SplitRegion(r, p)]
                 /\ pool' = pool (+) SetToBag({SplitThis(r, p)})
  /\ UNCHANGED <<call, abort, pc, exc, progress, calls, reports, refused, abortedAt, lastSplit>>

\* a closure that polls the abort flag on the calling thread only
LeafEnterPollsOnCaller(t) ==
  /\ thr[t].pc = "part"
  /\ Simple => ~IsDivisible(thr[t].rng)
  /\ LET r == thr[t].rng
     IN IF call.filter /\ abort /\ t = callingThread
          THEN /\ exc' = Capture("ProcessAborted")
               /\ refused' = refused \cup {r}
               /\ thr' = [thr EXCEPT ![t] = IdleThread]
               /\ calls' = calls
          ELSE IF call.op # "SingleMethodExecute" /\ ~call.func
          THEN /\ exc' = Capture("bad_function_call")
               /\ thr' = [thr EXCEPT ![t] = IdleThread]
               /\ UNCHANGED <<refused, calls>>
          ELSE /\ calls' = calls (+) SetToBag({WorkArgument(r)})
               /\ thr' = [thr EXCEPT ![t].pc = "work"]
               /\ UNCHANGED <<exc, refused>>
  /\ UNCHANGED <<call, abort, pc, pool, progress, reports, abortedAt, lastSplit>>

\* a closure that polls the abort flag after it invoked the work function
LeafEnterPollsLate(t) ==
  /\ thr[t].pc = "part"
  /\ Simple => ~IsDivisible(thr[t].rng)
  /\ LET r == thr[t].rng
     IN IF call.op # "SingleMethodExecute" /\ ~call.func
          THEN /\ exc' = Capture("bad_function_call")
               /\ thr' = [thr EXCEPT ![t] = IdleThread]
               /\ UNCHANGED <<refused, calls>>
          ELSE IF call.filter /\ abort
          THEN /\ exc' = Capture("ProcessAborted")
               /\ refused' = refused \cup {r}
               /\ thr' = [thr EXCEPT ![t] = IdleThread]
               /\ calls' = calls (+) SetToBag({WorkArgument(r)})
          ELSE /\ calls' = calls (+) SetToBag({WorkArgument(r)})
               /\ thr' = [thr EXCEPT ![t].pc = "work"]
               /\ UNCHANGED <<exc, refused>>
  /\ UNCHANGED <<call, abort, pc, pool, progress, reports, abortedAt, lastSplit>>

\* the closure starts on a leaf: the abort poll, then the work function is
\* invoked.  simple_partitioner runs the closure on indivisible ranges
\* only, auto_partitioner where it chooses to stop.
LeafEnter(t) ==
  /\ thr[t].pc = "part"
  /\ Simple => ~IsDivisible(thr[t].rng)
  /\ LET r == thr[t].rng
     IN IF call.filter /\ abort
          THEN /\ exc' = Capture("ProcessAborted")
               /\ refused' = refused \cup {r}
               /\ thr' = [thr EXCEPT ![t] = IdleThread]
               /\ calls' = calls
          ELSE IF call.op # "SingleMethodExecute" /\ ~call.func
          THEN /\ exc' = Capture("bad_function_call")
               /\ thr' = [thr EXCEPT ![t] = IdleThread]
               /\ UNCHANGED <<refused, calls>>
          ELSE /\ calls' = calls (+) SetToBag({WorkArgument(r)})
               /\ thr' = [thr EXCEPT ![t].pc = "work"]
               /\ UNCHANGED <<exc, refused>>
  /\ UNCHANGED <<call, abort, pc, pool, progress, reports, abortedAt, lastSplit>>

\* a closure that counts tasks, not elements, in both calls
LeafWorkReturnCountsTasks(t) ==
  /\ thr[t].pc = "work"
  /\ IF call.filter
       THEN /\ progress' = (progress + 1) % SizeValueMod
            /\ thr' = [thr EXCEPT ![t] = IF t = callingThread
                                           THEN [pc |-> "report", rng |-> thr[t].rng]
                                           ELSE IdleThread]
       ELSE /\ progress' = progress
            /\ thr' = [thr EXCEPT ![t] = IdleThread]
  /\ UNCHANGED <<call, abort, pc, exc, pool, calls, reports, refused, abortedAt, lastSplit>>

\* a closure that reports progress from whatever thread it runs on
LeafWorkReturnUngated(t) ==
  /\ thr[t].pc = "work"
  /\ IF call.filter
       THEN /\ progress' = (progress + (IF call.op = "ParallelizeArray" THEN 1
                                        ELSE GetNumberOfPixels(thr[t].rng)))
                             % SizeValueMod
            /\ thr' = [thr EXCEPT ![t] = [pc |-> "report", rng |-> thr[t].rng]]
       ELSE /\ progress' = progress
            /\ thr' = [thr EXCEPT ![t] = IdleThread]
  /\ UNCHANGED <<call, abort, pc, exc, pool, calls, reports, refused, abortedAt, lastSplit>>

\* the work function returns; with a filter the closure adds to the counter
LeafWorkReturn(t) ==
  /\ thr[t].pc = "work"
  /\ IF call.filter
       THEN /\ progress' = (progress + (IF call.op = "ParallelizeArray" THEN 1
                                        ELSE GetNumberOfPixels(thr[t].rng)))
                             % SizeValueMod
            /\ thr' = [thr EXCEPT ![t] = IF t = callingThread
                                           THEN [pc |-> "report", rng |-> thr[t].rng]
                                           ELSE IdleThread]
       ELSE /\ progress' = progress
            /\ thr' = [thr EXCEPT ![t] = IdleThread]
  /\ UNCHANGED <<call, abort, pc, exc, pool, calls, reports, refused, abortedAt, lastSplit>>

\* a task whose failed invocation is dropped and run again
LeafWorkThrowRetries(t) ==
  /\ thr[t].pc = "work"
  /\ thr' = [thr EXCEPT ![t].pc = "part"]
  /\ UNCHANGED <<call, abort, pc, exc, pool, progress, calls, reports, refused, abortedAt, lastSplit>>

\* the work function throws
LeafWorkThrow(t) ==
  /\ thr[t].pc = "work"
  /\ exc' = Capture("work")
  /\ thr' = [thr EXCEPT ![t] = IdleThread]
  /\ UNCHANGED <<call, abort, pc, pool, progress, calls, reports, refused, abortedAt, lastSplit>>

\* filter->UpdateProgress( float( progress ) / count );
LeafReport(t) ==
  /\ thr[t].pc = "report"
  /\ UpdateProgress(t, progress,
                    IF call.op = "ParallelizeArray" THEN count ELSE totalCount)
  /\ thr' = [thr EXCEPT ![t] = IdleThread]
  /\ UNCHANGED <<call, abort, pc, exc, pool, progress, calls, refused, abortedAt, lastSplit>>

\* ------------------------------------------------- the environment
\* the owner of the filter sets AbortGenerateData while the call runs
SetAbortGenerateData ==
  /\ call.filter
  /\ ~abort
  /\ pc \notin Terminal
  /\ abort' = TRUE
  /\ abortedAt' = [pc |-> pc, completed |-> (Completed > 0), exc |-> exc]
  /\ UNCHANGED <<call, pc, exc, pool, thr, progress, calls, reports, refused, lastSplit>>

Next ==
  \/ SingleMethodExecute
  \/ ReportStart
  \/ ParallelizeArray
  \/ ParallelizeImageRegion
  \/ DirectReturn
  \/ DirectThrow
  \/ Join
  \/ ReportEnd
  \/ Recheck
  \/ \E t \in Threads : Take(t)
  \/ \E t \in Threads : Split(t)
  \/ \E t \in Threads : LeafEnter(t)
  \/ \E t \in Threads : LeafWorkReturn(t)
  \/ \E t \in Threads : LeafWorkThrow(t)
  \/ \E t \in Threads : LeafReport(t)
  \/ SetAbortGenerateData

Spec == Init /\ [][Next]_vars

\* The threads of the pool keep running and every invocation of the work
\* function ends; nothing obliges the owner of the filter to abort.
Step ==
  \/ SingleMethodExecute
  \/ ReportStart
  \/ ParallelizeArray
  \/ ParallelizeImageRegion
  \/ DirectReturn
  \/ Join
  \/ ReportEnd
  \/ Recheck
  \/ \E t \in Threads : Take(t) \/ Split(t) \/ LeafEnter(t) \/ LeafWorkReturn(t) \/ LeafReport(t)

FairSpec == Spec /\ WF_vars(Step)

\* ------------------------------------------------- splitting alone
\* Largest size along one dimension of a region that is split to the end.
MaxSplitSize == 3

\* Size of the longest one-dimensional region that is split to the end.
MaxLineSize == 10

SplitRegions ==
  UNION {{Region(RegionIndex(n), s) : s \in [1 .. n -> 0 .. MaxSplitSize]} :
           n \in Dimensions}
    \cup {Region(RegionIndex(1), <<MaxLineSize>>)}

InitSplit ==
  /\ call \in [op : {"ParallelizeImageRegion"}, m_NumberOfThreads : {MaxWorkers},
               m_SingleMethod : {FALSE}, m_SingleData : {"d1"},
               firstIndex : {0}, lastIndexPlus1 : {0}, region : SplitRegions,
               func : {TRUE}, filter : {FALSE}]
  /\ abort = FALSE
  /\ pc = "split"
  /\ exc = "none"
  /\ pool = SetToBag({call.region})
  /\ thr = [t \in Threads |-> IdleThread]
  /\ progress = 0
  /\ calls = EmptyBag
  /\ reports = <<>>
  /\ refused = {}
  /\ abortedAt = [pc |-> "never", completed |-> FALSE, exc |-> "none"]
  /\ lastSplit = NoSplit

\* TBBImageRegionSplitter(TBBImageRegionSplitter& region, proportional_split p)
\* applied to a divisible region of the pool
SplitStep ==
  /\ pc = "split"
  /\ \E r \in BagToSet(pool), p \in Ratios :
       /\ is_divisible(r)
       /\ pool' = ((pool (-) SetToBag({r})) (+) SetToBag({SplitThis(r, p)}))
                    (+) SetToBag({SplitRegion(r, p)})
       /\ lastSplit' = [from |-> r, ratio |-> p,
                        this |-> SplitThis(r, p), region |-> SplitRegion(r, p)]
  /\ UNCHANGED <<call, abort, pc, exc, thr, progress, calls, reports, refused, abortedAt>>

\* a failed splitting constructor that has already cut its argument down
SplitThrowShrinks ==
  /\ pc = "split"
  /\ \E r \in BagToSet(pool), p \in Ratios :
       /\ SplitDimension(r) = 0
       /\ pool' = (pool (-) SetToBag({r}))
                    (+) SetToBag({Region(r.index, [d \in 1 .. GetImageDimension(r) |-> 0])})
  /\ exc' = "could_not_be_split"
  /\ pc' = "raised"
  /\ UNCHANGED <<call, abort, thr, progress, calls, reports, refused, abortedAt, lastSplit>>

\* the splitting constructor applied to a region with no size > 1: the loop
\* ends without a split and itkGenericExceptionMacro throws; `region` was
\* not touched and the object under construction is gone
SplitThrow ==
  /\ pc = "split"
  /\ \E r \in BagToSet(pool), p \in Ratios :
       /\ SplitDimension(r) = 0
       /\ pool' = pool
  /\ exc' = "could_not_be_split"
  /\ pc' = "raised"
  /\ UNCHANGED <<call, abort, thr, progress, calls, reports, refused, abortedAt, lastSplit>>

SplitNext == SplitStep \/ SplitThrow

SplitSpec == InitSplit /\ [][SplitNext]_vars

\* ================================================= claims
Parallelize == {"ParallelizeArray", "ParallelizeImageRegion"}

\* the indices of [firstIndex, lastIndexPlus1)
RangeIndices == call.firstIndex .. (call.lastIndexPlus1 - 1)

\* C1: a ParallelizeArray call over [first, last) with first <= last never
\* invokes work twice on an index nor on an index outside the range, and
\* when it has returned normally (neither aborted nor hit by an exception
\* of the work function) work was invoked exactly once on every index of
\* the range, last - first times in all, whatever m_NumberOfThreads and
\* whatever the interleaving of the tasks.
C1_ArrayOncePerIndex ==
  (call.op = "ParallelizeArray" /\ call.firstIndex <= call.lastIndexPlus1) =>
    /\ \A i \in BagToSet(calls) : i \in RangeIndices /\ CopiesIn(i, calls) = 1
    /\ pc = "returned" =>
         /\ calls = SetToBag(RangeIndices)
         /\ BagCardinality(calls) = call.lastIndexPlus1 - call.firstIndex

\* a longest range has been dispatched and the call has returned
C1_Witness ==
  /\ call.op = "ParallelizeArray"
  /\ call.lastIndexPlus1 - call.firstIndex = MaxLen
  /\ pc = "returned"
  /\ BagCardinality(calls) = MaxLen

\* the ThreadInfoStruct of worker i
ThreadInfo(i) ==
  [ThreadID |-> i, UserData |-> call.m_SingleData,
   NumberOfThreads |-> call.m_NumberOfThreads]

\* C2: in SingleMethodExecute every leaf range the closure runs on has
\* exactly one element, every invocation of m_SingleMethod receives a worker
\* index of [0, N), the total N and m_SingleData, no index is used twice,
\* and when the call has returned the method was invoked exactly N times,
\* once per index of [0, N).
C2_OncePerWorker ==
  call.op = "SingleMethodExecute" =>
    /\ \A t \in Threads : thr[t].pc = "work" => thr[t].rng.b + 1 = thr[t].rng.e
    /\ \A a \in BagToSet(calls) :
         /\ a \in {ThreadInfo(i) : i \in 0 .. (call.m_NumberOfThreads - 1)}
         /\ CopiesIn(a, calls) = 1
    /\ pc = "returned" =>
         /\ calls = SetToBag({ThreadInfo(i) : i \in 0 .. (call.m_NumberOfThreads - 1)})
         /\ BagCardinality(calls) = call.m_NumberOfThreads

\* SingleMethodExecute has returned with the largest worker count
C2_Witness ==
  /\ call.op = "SingleMethodExecute"
  /\ call.m_NumberOfThreads = MaxWorkers
  /\ pc = "returned"
  /\ BagCardinality(calls) = MaxWorkers

\* the regions of bag b partition region r: each is non-empty and lies in
\* r, no two overlap (none occurs twice), and together they cover r
Partitions(b, r) ==
  /\ \A x \in BagToSet(b) :
       /\ CopiesIn(x, b) = 1
       /\ Elements(x) # {}
       /\ Elements(x) \subseteq Elements(r)
  /\ \A x, y \in BagToSet(b) : x # y => Elements(x) \cap Elements(y) = {}
  /\ UNION {Elements(x) : x \in BagToSet(b)} = Elements(r)

AllSizesPositive(r) == \A d \in 1 .. GetImageDimension(r) : r.size[d] >= 1

\* C3: when a ParallelizeImageRegion call over a region with all sizes >= 1
\* has returned normally, the sub-regions work was invoked on partition the
\* region, whatever splits were made and wherever subdividing stopped.
C3_LeavesPartitionRegion ==
  (call.op = "ParallelizeImageRegion" /\ AllSizesPositive(call.region)
     /\ pc = "returned") =>
    Partitions(calls, call.region)

\* a call over a largest region has returned after work was invoked on
\* more than one sub-region
C3_Witness ==
  /\ call.op = "ParallelizeImageRegion"
  /\ GetNumberOfPixels(call.region) = MaxPixels
  /\ pc = "returned"
  /\ BagCardinality(calls) > 2

\* C4: splitting a region with all sizes >= 1 again and again keeps a set
\* of regions that partition the original one, and once no region is
\* divisible every region has size 1 in every dimension and their number
\* is the element count of the original region.
C4_SplitToTheEnd ==
  (pc = "split" /\ AllSizesPositive(call.region)) =>
    /\ Partitions(pool, call.region)
    /\ (\A r \in BagToSet(pool) : ~is_divisible(r)) =>
         /\ \A r \in BagToSet(pool) :
              \A d \in 1 .. GetImageDimension(r) : r.size[d] = 1
         /\ BagCardinality(pool) = GetNumberOfPixels(call.region)

\* a region of more than one dimension has been split to the end
C4_Witness ==
  /\ pc = "split"
  /\ GetImageDimension(call.region) > 1
  /\ GetNumberOfPixels(call.region) = MaxSplitSize * MaxSplitSize
  /\ \A r \in BagToSet(pool) : ~is_divisible(r)
  /\ BagCardinality(pool) = MaxSplitSize * MaxSplitSize

\* the failures of a call
Failures == {"ProcessAborted", "work", "bad_function_call"}

\* C5: if the abort flag is already true when ParallelizeArray or
\* ParallelizeImageRegion is called with a filter (and a work function),
\* the work function is never invoked and the call ends by raising
\* ProcessAborted, for every range or region and every worker count.
C5_AbortBeforeStartNoWork ==
  (call.op \in Parallelize /\ call.filter /\ call.func /\ abortedAt.pc = "call") =>
    /\ calls = EmptyBag
    /\ pc \in Terminal => (pc = "raised" /\ exc = "ProcessAborted")

\* C6 as claimed: a call with a filter and a work function in which the
\* abort flag became true while the parallel_for ran (before the
\* post-dispatch check) has, when it has ended, raised ProcessAborted.
C6_AbortEndsInProcessAborted ==
  (call.op \in Parallelize /\ call.filter /\ call.func
     /\ abortedAt.pc = "parallel" /\ abortedAt.exc = "none" /\ pc \in Terminal) =>
    (pc = "raised" /\ exc = "ProcessAborted")

\* C6 as amended: once the abort flag is true during a call with a filter,
\* the call eventually ends by raising a failure to the caller and never
\* returns normally; the failure is ProcessAborted unless an invocation of
\* the work function raised, in which case it may be that failure.
C6_AbortEndsInFailure ==
  /\ []((call.op \in Parallelize /\ call.filter /\ abort /\ pc \in Terminal) =>
          (pc = "raised" /\ exc \in Failures))
  /\ (call.op \in Parallelize /\ call.filter /\ abort) ~> (pc = "raised")

\* the flag was set while the parallel_for ran, after a task had completed,
\* no task's poll saw it and the post-dispatch check raised
C6_Witness ==
  /\ call.op \in Parallelize
  /\ abortedAt.pc = "parallel"
  /\ abortedAt.completed
  /\ refused = {}
  /\ pc = "raised"
  /\ exc = "ProcessAborted"

RECURSIVE PixelsOf(_, _)
PixelsOf(b, S) ==
  IF S = {} THEN 0
  ELSE LET x == CHOOSE y \in S : TRUE
       IN CopiesIn(x, b) * GetNumberOfPixels(x) + PixelsOf(b, S \ {x})

\* the indices (elements) the work function was invoked on, with repeats
Covered ==
  IF call.op = "ParallelizeArray" THEN BagCardinality(calls)
  ELSE PixelsOf(calls, BagToSet(calls))

\* the size of the index space of the call
FullSize ==
  IF call.op = "ParallelizeArray" THEN call.lastIndexPlus1 - call.firstIndex
  ELSE GetNumberOfPixels(call.region)

\* abort became true while the parallel_for ran, after a task had completed
AbortedMidFlight ==
  /\ call.op \in Parallelize
  /\ call.filter
  /\ abortedAt.pc = "parallel"
  /\ abortedAt.completed

\* C7 as claimed: a call in which abort became true after some tasks had
\* completed (none had failed) and which ended by raising ProcessAborted
\* made fewer work invocations than the index space has elements.
C7_AbortMidFlightFewerInvocations ==
  (AbortedMidFlight /\ abortedAt.exc = "none"
     /\ pc = "raised" /\ exc = "ProcessAborted") =>
    BagCardinality(calls) < FullSize

\* C7 as amended: in a call in which abort became true after some tasks had
\* completed, the work function is invoked on at most the full index space,
\* and on strictly less than it once a task's abort poll has seen the flag.
C7_AbortMidFlightBounded ==
  AbortedMidFlight =>
    /\ Covered <= FullSize
    /\ refused # {} => Covered < FullSize

\* abort came after a completed task, a later task's poll saw it and the
\* call raised with part of the index space not processed
C7_Witness ==
  /\ AbortedMidFlight
  /\ refused # {}
  /\ pc = "raised"
  /\ exc = "ProcessAborted"
  /\ Covered > 0
  /\ Covered < FullSize

\* work was not invoked on leaf r nor on any index or element of it
NotInvokedOn(r) ==
  IF call.op = "ParallelizeArray" THEN ~BagIn(r.b, calls)
  ELSE \A x \in BagToSet(calls) : Elements(x) \cap Elements(r) = {}

\* C8 as claimed: a task whose abort poll returned true does not invoke
\* work on its index or sub-region, and the call then ends by raising
\* ProcessAborted to the caller.
C8_RefusedTaskRaisesAborted ==
  (call.op \in Parallelize /\ call.func) =>
    /\ \A r \in refused : NotInvokedOn(r)
    /\ (refused # {} /\ pc \in Terminal) => (pc = "raised" /\ exc = "ProcessAborted")

\* C8 as amended: a task whose abort poll returned true does not invoke
\* work on its index or sub-region and throws ProcessAborted; from then on
\* the parallel_for holds a failure, the call never goes on to its normal
\* end, and the failure raised to the caller is that ProcessAborted unless
\* another task's failure was captured before it.
C8_RefusedTaskFailsTheCall ==
  /\ [](call.op \in Parallelize =>
          /\ \A r \in refused : NotInvokedOn(r)
          /\ refused # {} => (exc \in Failures /\ pc \in {"parallel", "raised"}))
  /\ [][refused' # refused =>
          /\ calls' = calls
          /\ exc' = (IF exc = "none" THEN "ProcessAborted" ELSE exc)]_vars

\* a task refused to run after another had run, and the call raised
C8_Witness ==
  /\ call.op \in Parallelize
  /\ refused # {}
  /\ BagCardinality(calls) > 0
  /\ pc = "raised"
  /\ exc = "ProcessAborted"

\* progress values a / b as fractions num / den; a float division by 0 of a
\* positive count is +infinity
ProgressLeq(a, b) ==
  IF b.den = 0 THEN TRUE
  ELSE IF a.den = 0 THEN FALSE
  ELSE a.num * b.den <= b.num * a.den

CallerReports == SelectSeq(reports, LAMBDA x : x.thread = callingThread)

\* C9: in a call with a filter that returned normally (and whose mid-run
\* reports do not divide by 0), the values passed to UpdateProgress from the
\* calling thread are non-decreasing and the last one is 1.0.
C9_ProgressMonotone ==
  (call.op \in Parallelize /\ call.filter /\ pc = "returned"
     /\ \A i \in 1 .. Len(reports) : reports[i].den # 0) =>
    LET r == CallerReports
    IN /\ \A i \in 1 .. (Len(r) - 1) : ProgressLeq(r[i], r[i + 1])
       /\ Len(r) > 0
       /\ r[Len(r)].den > 0
       /\ r[Len(r)].num = r[Len(r)].den

\* C10: UpdateProgress is only ever called from the calling thread; a task
\* on another thread adds to the counter and reports nothing.
C10_ReportsFromCallerOnly ==
  /\ \A i \in 1 .. Len(reports) : reports[i].thread = callingThread
  /\ \A t \in Threads \ {callingThread} : thr[t].pc # "report"

\* a task on another thread has added to the counter (the calling thread
\* has completed none) and only the report of 0.0 was made
C10_Witness ==
  /\ call.op \in Parallelize
  /\ call.filter
  /\ progress > 0
  /\ Len(reports) = 1
  /\ thr[callingThread].pc \in {"part", "work"}

\* C11: a ParallelizeArray or ParallelizeImageRegion call made with an
\* empty work function hands no task to the scheduler, lets no task poll
\* the abort flag or add to the progress counter, and ends by raising the
\* error of a missing work function, for every range or region, empty ones
\* included.
C11_EmptyFunctorRaisesBeforeDispatch ==
  (call.op \in Parallelize /\ ~call.func) =>
    /\ pc # "parallel"
    /\ pool = EmptyBag
    /\ \A t \in Threads : thr[t].pc = "idle"
    /\ refused = {}
    /\ pc \in Terminal => (pc = "raised" /\ exc = "bad_function_call")

\* C12: a SingleMethodExecute call made while m_SingleMethod is not set
\* does nothing but raise the "No single method set!" exception: no task is
\* dispatched, the method is invoked zero times, the call never returns
\* normally, and m_SingleMethod, m_SingleData and m_NumberOfThreads are
\* left as they were.
C12_NoMethodFailsBeforeDispatch ==
  /\ []((call.op = "SingleMethodExecute" /\ ~call.m_SingleMethod) =>
          /\ calls = EmptyBag
          /\ pool = EmptyBag
          /\ \A t \in Threads : thr[t].pc = "idle"
          /\ pc \in {"start", "raised"}
          /\ pc = "raised" <=> exc = "NoSingleMethod")
  /\ [][call.op = "SingleMethodExecute" =>
          /\ call'.m_SingleMethod = call.m_SingleMethod
          /\ call'.m_SingleData = call.m_SingleData
          /\ call'.m_NumberOfThreads = call.m_NumberOfThreads]_vars

\* SingleMethodExecute without a method has raised, with the largest worker
\* count configured
C12_Witness ==
  /\ call.op = "SingleMethodExecute"
  /\ ~call.m_SingleMethod
  /\ call.m_NumberOfThreads = MaxWorkers
  /\ pc = "raised"
  /\ exc = "NoSingleMethod"

\* an invocation of the work function raises in this step
WorkRaises == DirectThrow \/ \E t \in Threads : LeafWorkThrow(t)

\* C13 as claimed: when an invocation of the work function raises, the
\* failure the call holds for its caller is that failure.
C13_WorkFailureIsRaised ==
  [][WorkRaises => exc' = "work"]_vars

\* C13 as amended: when an invocation of the work function raises, the call
\* holds a failure for its caller from then on (that failure, unless the
\* failure of another task was captured before it), a captured failure is
\* never replaced or dropped, a call that holds one ends only by raising
\* it, never by its normal end, and no argument is given to the work
\* function a second time.
C13_WorkFailureFailsTheCall ==
  /\ [][WorkRaises => exc' = (IF exc = "none" THEN "work" ELSE exc)]_vars
  /\ [][exc # "none" => exc' = exc]_vars
  /\ [](exc # "none" => pc \in {"parallel", "raised"})
  /\ [](pc = "returned" => exc = "none")
  /\ [](\A a \in BagToSet(calls) : CopiesIn(a, calls) = 1)

\* an invocation raised after others had been made and the call raised its
\* failure
C13_Witness ==
  /\ pc = "raised"
  /\ exc = "work"
  /\ BagCardinality(calls) > 1
  /\ pool # EmptyBag \/ BagCardinality(calls) < FullSize

\* the parallel_for of the call, if any, has returned or thrown
AfterDispatch == pc \in {"final", "recheck", "returned", "raised"}

\* C14: once the parallel_for of a call has returned or thrown, and so
\* when the call returns or raises to its caller, no task of the call is
\* executing the work function or waiting to be run, and from then on no
\* invocation of the work function starts; so too when the call ends by
\* abort or by an exception of the work function.
C14_Synchronous ==
  /\ [](AfterDispatch =>
          /\ \A t \in Threads : thr[t].pc = "idle"
          /\ pool = EmptyBag)
  /\ [][AfterDispatch => (calls' = calls /\ thr' = thr /\ pool' = pool)]_vars

\* the abort flag was set while invocations of the work function were in
\* flight (none had ended), a task then refused to run, and the call has
\* raised
C14_Witness ==
  /\ call.op \in Parallelize
  /\ abortedAt.pc = "parallel"
  /\ ~abortedAt.completed
  /\ BagCardinality(calls) > 1
  /\ refused # {}
  /\ pc = "raised"

\* C15: when a ParallelizeArray call with a filter (and a work function)
\* has ended, by completing all work or by raising ProcessAborted, the last
\* value it passed to UpdateProgress is 1.0.
C15_FinalProgressReported ==
  (call.op = "ParallelizeArray" /\ call.filter /\ call.func
     /\ pc \in Terminal /\ exc \in {"none", "ProcessAborted"}) =>
    /\ Len(reports) > 0
    /\ reports[Len(reports)].thread = callingThread
    /\ reports[Len(reports)].den > 0
    /\ reports[Len(reports)].num = reports[Len(reports)].den

\* C16: a ParallelizeArray call with firstIndex = lastIndexPlus1 runs no
\* task and never invokes the work function, and when it has ended without
\* the abort flag set it has returned normally, with or without a filter
\* (and whether or not a work function was given).
C16_EmptyRangeNoWork ==
  (call.op = "ParallelizeArray" /\ call.firstIndex = call.lastIndexPlus1) =>
    /\ calls = EmptyBag
    /\ pool = EmptyBag
    /\ \A t \in Threads : thr[t].pc = "idle"
    /\ (pc \in Terminal /\ ~abort) => (pc = "returned" /\ exc = "none")

\* the empty range at the largest index, where firstIndex + 1 wraps to 0
\* and the parallel_for is entered, has returned with a filter present
C16_Witness ==
  /\ call.op = "ParallelizeArray"
  /\ call.firstIndex = SizeValueMod - 1
  /\ call.lastIndexPlus1 = call.firstIndex
  /\ call.filter
  /\ pc = "returned"
  /\ Len(reports) = 2

\* C17: a ParallelizeArray call with lastIndexPlus1 = firstIndex + 1 (and a
\* work function) never enters the parallel_for and hands no task to the
\* scheduler; after its branch the work function has been invoked exactly
\* once, on firstIndex, by the calling thread itself, and never again.
C17_SingleElementDirect ==
  (call.op = "ParallelizeArray" /\ call.func
     /\ call.lastIndexPlus1 = call.firstIndex + 1) =>
    /\ pc # "parallel"
    /\ pool = EmptyBag
    /\ \A t \in Threads : thr[t].pc = "idle"
    /\ calls = (IF pc \in {"start", "branch"} THEN EmptyBag
                ELSE SetToBag({call.firstIndex}))

\* a single-element call with the largest worker count has returned
C17_Witness ==
  /\ call.op = "ParallelizeArray"
  /\ call.lastIndexPlus1 = call.firstIndex + 1
  /\ call.m_NumberOfThreads = MaxWorkers
  /\ call.func
  /\ pc = "returned"
  /\ calls = SetToBag({call.firstIndex})

\* C18: a ParallelizeImageRegion call with m_NumberOfThreads = 1 (and a
\* work function) never enters the parallel_for, so no region is split and
\* no task exists; after its branch the work function has been invoked
\* exactly once, by the calling thread, with the index and size of the call.
C18_OneWorkerDirect ==
  (call.op = "ParallelizeImageRegion" /\ call.func
     /\ call.m_NumberOfThreads = 1) =>
    /\ pc # "parallel"
    /\ pool = EmptyBag
    /\ \A t \in Threads : thr[t].pc = "idle"
    /\ calls = (IF pc \in {"start", "branch"} THEN EmptyBag
                ELSE SetToBag({call.region}))

\* a call over a largest divisible region of two dimensions has returned
\* after one invocation on the whole region
C18_Witness ==
  /\ call.op = "ParallelizeImageRegion"
  /\ call.m_NumberOfThreads = 1
  /\ GetImageDimension(call.region) = 2
  /\ GetNumberOfPixels(call.region) = MaxPixels
  /\ is_divisible(call.region)
  /\ pc = "returned"
  /\ calls = SetToBag({call.region})

\* C19: a split changes exactly one dimension of the region, one of
\* size > 1 above which every dimension has size <= 1; the index and size of
\* every other dimension are the same in both halves as in the region
\* split.
C19_SplitsHighestDimension ==
  lastSplit # NoSplit =>
    LET f == lastSplit.from
        a == lastSplit.this
        b == lastSplit.region
        dims == 1 .. GetImageDimension(f)
    IN \E d \in dims :
         /\ f.size[d] > 1
         /\ \A e \in dims : e > d => f.size[e] <= 1
         /\ a.size[d] < f.size[d] /\ b.size[d] < f.size[d]
         /\ \A e \in dims \ {d} :
              /\ a.size[e] = f.size[e] /\ a.index[e] = f.index[e]
              /\ b.size[e] = f.size[e] /\ b.index[e] = f.index[e]

\* a region with size > 1 in both dimensions has been split along the
\* higher one
C19_Witness ==
  /\ lastSplit # NoSplit
  /\ GetImageDimension(lastSplit.from) = 2
  /\ lastSplit.from.size[1] > 1
  /\ lastSplit.from.size[2] > 1
  /\ lastSplit.this.size[2] < lastSplit.from.size[2]
  /\ lastSplit.this.size[1] = lastSplit.from.size[1]

\* floor(s * right / (left + right)) clamped to [1, s - 1]
Cut(s, p) ==
  LET q == (s * p[2]) \div (p[1] + p[2])
  IN IF q < 1 THEN 1 ELSE IF q > s - 1 THEN s - 1 ELSE q

\* C20: after a split with ratio (left, right) of a region whose split
\* dimension has size s > 1, the sizes of the two halves along that
\* dimension are cut and s - cut, cut being floor(s * right / (left + right))
\* clamped to [1, s - 1], so both are >= 1; a region of size 10 split with
\* ratio (1, 1), the ratio of a simple split, gives 5 and 5.
C20_CutSizes ==
  lastSplit # NoSplit =>
    LET f == lastSplit.from
        d == CHOOSE x \in 1 .. GetImageDimension(f) :
               /\ f.size[x] > 1
               /\ \A e \in 1 .. GetImageDimension(f) : e > x => f.size[e] <= 1
        s == f.size[d]
        a == lastSplit.this.size[d]
        b == lastSplit.region.size[d]
        cut == Cut(s, lastSplit.ratio)
    IN /\ (a = cut /\ b = s - cut) \/ (a = s - cut /\ b = cut)
       /\ a >= 1 /\ b >= 1
       /\ (s = 10 /\ lastSplit.ratio = SimpleSplitRatio) => (a = 5 /\ b = 5)

\* the region of size 10 has been split with ratio (1, 1)
C20_Witness ==
  /\ lastSplit.from.size = <<MaxLineSize>>
  /\ lastSplit.ratio = SimpleSplitRatio
  /\ lastSplit.this.size[1] + lastSplit.region.size[1] = MaxLineSize

\* region hi lies right after region lo along dimension d, and the two
\* sizes along d add up to s
Adjacent(lo, hi, d, s) ==
  /\ hi.index[d] = lo.index[d] + lo.size[d]
  /\ lo.size[d] + hi.size[d] = s

\* C21: a split of a divisible region with all sizes >= 1 leaves two
\* non-empty regions that are disjoint and whose union is the region
\* split; along one dimension they are adjacent with sizes that add up to
\* the original size, and their element counts add up to the original
\* element count.
C21_SplitHalvesPartition ==
  (lastSplit # NoSplit /\ AllSizesPositive(lastSplit.from)) =>
    LET f == lastSplit.from
        a == lastSplit.this
        b == lastSplit.region
    IN /\ Elements(a) # {} /\ Elements(b) # {}
       /\ Elements(a) \cap Elements(b) = {}
       /\ Elements(a) \cup Elements(b) = Elements(f)
       /\ \E d \in 1 .. GetImageDimension(f) :
            Adjacent(a, b, d, f.size[d]) \/ Adjacent(b, a, d, f.size[d])
       /\ GetNumberOfPixels(a) + GetNumberOfPixels(b) = GetNumberOfPixels(f)

\* a largest region of two dimensions has been split with an uneven ratio
C21_Witness ==
  /\ lastSplit # NoSplit
  /\ lastSplit.from.size = <<MaxSplitSize, MaxSplitSize>>
  /\ lastSplit.ratio = <<1, 2>>
  /\ GetNumberOfPixels(lastSplit.this) # GetNumberOfPixels(lastSplit.region)

\* the dimension of region f a split is made along: the highest of size > 1
HighestOver1(f) ==
  CHOOSE x \in 1 .. GetImageDimension(f) :
    /\ f.size[x] > 1
    /\ \A e \in 1 .. GetImageDimension(f) : e > x => f.size[e] <= 1

\* C22 as claimed: after a split along dimension d the splitter that
\* existed before (the constructor's argument) has the original index[d]
\* and size[d] = cut, and the newly constructed one has index[d] + cut and
\* size[d] - cut.
C22_ExistingKeepsIndex ==
  lastSplit # NoSplit =>
    LET f == lastSplit.from
        d == HighestOver1(f)
        cut == Cut(f.size[d], lastSplit.ratio)
    IN /\ lastSplit.region.index[d] = f.index[d]
       /\ lastSplit.region.size[d] = cut
       /\ lastSplit.this.index[d] = f.index[d] + cut
       /\ lastSplit.this.size[d] = f.size[d] - cut

\* C22 as amended: after a split along dimension d the newly constructed
\* splitter has the original index[d] and size[d] = cut, and the splitter
\* that existed before (the constructor's argument) has index[d] + cut and
\* size[d] - cut.
C22_NewKeepsIndex ==
  lastSplit # NoSplit =>
    LET f == lastSplit.from
        d == HighestOver1(f)
        cut == Cut(f.size[d], lastSplit.ratio)
    IN /\ lastSplit.this.index[d] = f.index[d]
       /\ lastSplit.this.size[d] = cut
       /\ lastSplit.region.index[d] = f.index[d] + cut
       /\ lastSplit.region.size[d] = f.size[d] - cut

\* the region of size 10 has been split with an uneven ratio: the new
\* splitter starts where the region did, the old one further up
C22_Witness ==
  /\ lastSplit.from.size = <<MaxLineSize>>
  /\ lastSplit.ratio = <<1, 2>>
  /\ lastSplit.this.index = lastSplit.from.index
  /\ lastSplit.this.size[1] # lastSplit.region.size[1]
  /\ lastSplit.region.index[1] > lastSplit.from.index[1]

\* C23: both halves of a split have as many dimensions as the region split,
\* and in every dimension but the one split along the same index and the
\* same size as it.
C23_OtherDimensionsKept ==
  lastSplit # NoSplit =>
    LET f == lastSplit.from
        d == HighestOver1(f)
    IN \A h \in {lastSplit.this, lastSplit.region} :
         /\ GetImageDimension(h) = GetImageDimension(f)
         /\ Len(h.index) = Len(f.index)
         /\ \A e \in (1 .. GetImageDimension(f)) \ {d} :
              h.index[e] = f.index[e] /\ h.size[e] = f.size[e]

\* a region of two dimensions has been split along the lower one, the
\* higher one having size 1
C23_Witness ==
  /\ lastSplit # NoSplit
  /\ lastSplit.from.size = <<MaxSplitSize, 1>>
  /\ lastSplit.this.size[1] + lastSplit.region.size[1] = MaxSplitSize
  /\ lastSplit.this.index[2] = lastSplit.from.index[2]
  /\ lastSplit.region.index[2] = lastSplit.from.index[2]

\* C24: every region that is empty (some size is 0) and every region with
\* all sizes 1 is reported not divisible by is_divisible().
C24_EmptyNotDivisible ==
  \A r \in BagToSet(pool) :
    (empty(r) \/ \A d \in 1 .. GetImageDimension(r) : r.size[d] = 1) =>
      ~is_divisible(r)

\* region r has no dimension of size > 1
Unsplittable(r) == \A d \in 1 .. GetImageDimension(r) : r.size[d] <= 1

\* C25: a split ends by the "could not be split" exception exactly when it
\* is asked of a region with no size > 1, the regions are then left as
\* they were, and no split is ever carried out on such a region.
C25_UnsplittableFails ==
  /\ [][(pc = "split" /\ pc' # "split") =>
          /\ pc' = "raised"
          /\ exc' = "could_not_be_split"
          /\ \E r \in BagToSet(pool) : Unsplittable(r)
          /\ pool' = pool
          /\ lastSplit' = lastSplit]_vars
  /\ [][(pc = "split" /\ pool' # pool) =>
          /\ exc' = "none"
          /\ ~Unsplittable(lastSplit'.from)
          /\ BagIn(lastSplit'.from, pool)]_vars

\* the split of a two-dimensional region with no size > 1 has failed
C25_Witness ==
  /\ pc = "raised"
  /\ exc = "could_not_be_split"
  /\ pool = SetToBag({call.region})
  /\ GetImageDimension(call.region) = 2
  /\ Unsplittable(call.region)

\* the call goes through tbb::parallel_for (and so has a progress counter)
Dispatched ==
  \/ /\ call.op = "ParallelizeArray"
     /\ (call.firstIndex + 1) % SizeValueMod < call.lastIndexPlus1
  \/ /\ call.op = "ParallelizeImageRegion"
     /\ call.m_NumberOfThreads # 1

\* what the task on leaf r adds to the counter when its work returned
LeafCount(r) ==
  IF call.op = "ParallelizeArray" THEN 1 ELSE GetNumberOfPixels(r)

\* the counts of the leaves whose invocation of the work function has not
\* ended yet
RECURSIVE InWork(_)
InWork(S) ==
  IF S = {} THEN 0
  ELSE LET t == CHOOSE x \in S : TRUE
       IN (IF thr[t].pc = "work" THEN LeafCount(thr[t].rng) ELSE 0)
            + InWork(S \ {t})

\* C26: in a dispatched call with a filter the counter never exceeds the
\* range length (the element count of the region) nor the counts of the
\* leaves whose work ended; as long as no task has failed it is exactly the
\* sum of the counts of the leaves whose work has returned, under every
\* interleaving of the increments, and it is the whole length (element
\* count) when the parallel_for has returned normally.
C26_CounterExact ==
  (call.op \in Parallelize /\ call.filter /\ Dispatched) =>
    LET total == IF FullSize > 0 THEN FullSize ELSE 0
    IN /\ progress <= total
       /\ progress <= Covered - InWork(Threads)
       /\ exc = "none" => progress = Covered - InWork(Threads)
       /\ pc \in {"final", "recheck", "returned"} => progress = total

\* two tasks have their work in flight after the counter was incremented,
\* in a call over a region
C26_Witness ==
  /\ call.op = "ParallelizeImageRegion"
  /\ call.filter
  /\ progress > 1
  /\ \A t \in Threads : thr[t].pc = "work"
  /\ progress = Covered - InWork(Threads)

\* C27: every value passed to UpdateProgress has a denominator that is not
\* 0 and a numerator between 0 and the denominator, for every range length
\* of the index type.
C27_ReportsAreFractions ==
  call.op \in Parallelize =>
    \A i \in 1 .. Len(reports) :
      /\ reports[i].den # 0
      /\ 0 <= reports[i].num
      /\ reports[i].num <= reports[i].den

\* C28: once the abort poll of a task has thrown ProcessAborted, the work
\* function is not invoked again in that call; the invocations in flight at
\* that moment are left as they are and can still run to their end.
C28_NoWorkAfterRefusal ==
  /\ [][refused # {} => calls' = calls]_vars
  /\ [][refused' # refused =>
          \A t \in Threads : thr[t].pc = "work" => thr'[t] = thr[t]]_vars
  /\ [](\A t \in Threads : thr[t].pc = "work" => ENABLED LeafWorkReturn(t))

\* a task has refused to run while the work of another is in flight and
\* tasks that were never started are left
C28_Witness ==
  /\ call.op \in Parallelize
  /\ refused # {}
  /\ \E t \in Threads : thr[t].pc = "work"
  /\ pool # EmptyBag

\* C29: every call ends, either returned with no failure or raised with
\* one failure, and stays as it ended; the failure a call holds is never
\* replaced by another (of several failing tasks the first is the one
\* raised), and the post-dispatch check of the abort flag is reached only
\* by a call none of whose tasks failed.
C29_OneOutcome ==
  /\ <>(pc \in Terminal)
  /\ [](pc = "returned" => exc = "none")
  /\ [](pc = "raised" => exc \in Failures \cup {"NoSingleMethod"})
  /\ [](pc \in {"final", "recheck"} => exc = "none")
  /\ [][(pc \in Terminal) => (pc' = pc /\ exc' = exc)]_vars
  /\ [][exc # "none" => exc' = exc]_vars

\* the abort polls of several tasks threw and the call raised one
\* ProcessAborted
C29_Witness ==
  /\ call.op \in Parallelize
  /\ Cardinality(refused) > 1
  /\ pc = "raised"
  /\ exc = "ProcessAborted"

\* the report of 0.0 by the calling thread
ZeroReport == [thread |-> callingThread, num |-> 0, den |-> 1]

\* C30: in a ParallelizeArray or ParallelizeImageRegion call with a filter,
\* nothing has happened before the report of 0.0 (no report, no task, no
\* invocation of the work function, no abort poll), that report is the
\* first one of the call, and every step that polls the abort flag or
\* invokes the work function, on any path, comes after it.
C30_ZeroReportedFirst ==
  /\ []((call.op \in Parallelize /\ call.filter) =>
          IF pc = "start"
            THEN /\ reports = <<>>
                 /\ calls = EmptyBag
                 /\ refused = {}
                 /\ pool = EmptyBag
                 /\ \A t \in Threads : thr[t].pc = "idle"
            ELSE /\ Len(reports) >= 1
                 /\ reports[1] = ZeroReport)
  /\ [][(/\ call.op \in Parallelize
         /\ call.filter
         /\ \/ ParallelizeArray
            \/ ParallelizeImageRegion
            \/ Recheck
            \/ \E t \in Threads : LeafEnter(t)) =>
          (reports # <<>> /\ reports[1] = ZeroReport)]_vars

\* with worker count 1 the work function is being invoked on the whole
\* region after the report of 0.0 and nothing else
C30_Witness ==
  /\ call.op = "ParallelizeImageRegion"
  /\ call.m_NumberOfThreads = 1
  /\ call.filter
  /\ pc = "direct"
  /\ reports = <<ZeroReport>>
  /\ calls = SetToBag({call.region})

\* C31: a ParallelizeImageRegion call (with a work function) over an empty
\* region never invokes the work function, and when it has ended without
\* the abort flag set it has returned normally, for every worker count,
\* 1 included.
C31_EmptyRegionNoWork ==
  (call.op = "ParallelizeImageRegion" /\ call.func /\ empty(call.region)) =>
    /\ calls = EmptyBag
    /\ (pc \in Terminal /\ ~abort) => (pc = "returned" /\ exc = "none")

\* C32: a ParallelizeArray call (with a work function) whose firstIndex is
\* not below its lastIndexPlus1 never invokes the work function, also where
\* firstIndex + 1 wraps around to 0.
C32_InvertedRangeNoWork ==
  (call.op = "ParallelizeArray" /\ call.func
     /\ call.firstIndex >= call.lastIndexPlus1) =>
    calls = EmptyBag

====
